---- MODULE Spec2Model ----
(***************************************************************************)
(* Citizen-services portal (src/app.py): a Flask application over three    *)
(* MongoDB collections (services, engagements, admins) and a per-client    *)
(* session.  Every request handler is one atomic action; the response of   *)
(* the last request is kept in `resp` and the request itself in `last`.    *)
(***************************************************************************)
EXTENDS Integers, Sequences, FiniteSets, TLC

VARIABLES services_col, eng_col, admins_col, session, last, resp

vars == <<services_col, eng_col, admins_col, session, last, resp>>

(***************************************************************************)
(* Python / JSON values.  Every value is a record of one shape so that any *)
(* two values can be compared: t is the type tag, n the number (floats are *)
(* kept in tenths), s the characters of a string or the items of a list.   *)
(***************************************************************************)
None == [t |-> "null", n |-> 0, s |-> <<>>]

IntV(i) == [t |-> "int", n |-> i, s |-> <<>>]

FloatV(tenths) == [t |-> "float", n |-> tenths, s |-> <<>>]

BoolV(b) == [t |-> "bool", n |-> IF b THEN 1 ELSE 0, s |-> <<>>]

StrV(cs) == [t |-> "str", n |-> 0, s |-> cs]

ListV(items) == [t |-> "list", n |-> 0, s |-> items]

TimeV(tick) == [t |-> "datetime", n |-> tick, s |-> <<>>]

\* Python truthiness: None, 0, 0.0, False, "" and [] are falsy.
Truthy(v) ==
    CASE v.t = "null" -> FALSE
      [] v.t \in {"int", "float", "bool"} -> v.n # 0
      [] v.t \in {"str", "list"} -> v.s # <<>>
      [] OTHER -> TRUE

\* a or b
Or(a, b) == IF Truthy(a) THEN a ELSE b

\* A dict is a function from some keys to values; d.get(k) is None for a missing key.
EmptyDict == [k \in {} |-> None]

Get(d, k) == IF k \in DOMAIN d THEN d[k] ELSE None

\* d with the items of e written over it (dict.update, MongoDB's $set).
Merge(d, e) ==
    [k \in (DOMAIN d) \cup (DOMAIN e) |-> IF k \in DOMAIN e THEN e[k] ELSE d[k]]

(***************************************************************************)
(* int(x) of Python.  The result is [ok, n]: ok is FALSE where Python      *)
(* raises ValueError or TypeError.                                         *)
(***************************************************************************)
Digits == {"0", "1", "2", "3", "4", "5", "6", "7", "8", "9"}

DigitVal(c) ==
    CASE c = "0" -> 0 [] c = "1" -> 1 [] c = "2" -> 2 [] c = "3" -> 3
      [] c = "4" -> 4 [] c = "5" -> 5 [] c = "6" -> 6 [] c = "7" -> 7
      [] c = "8" -> 8 [] c = "9" -> 9

RECURSIVE LStrip(_)
LStrip(cs) == IF cs # <<>> /\ Head(cs) = " " THEN LStrip(Tail(cs)) ELSE cs

RECURSIVE RStrip(_)
RStrip(cs) ==
    IF cs # <<>> /\ cs[Len(cs)] = " " THEN RStrip(SubSeq(cs, 1, Len(cs) - 1)) ELSE cs

\* str.strip()
Strip(cs) == RStrip(LStrip(cs))

RECURSIVE DigitsVal(_, _)
DigitsVal(cs, acc) ==
    IF cs = <<>> THEN acc ELSE DigitsVal(Tail(cs), 10 * acc + DigitVal(Head(cs)))

\* int() of a string: surrounding blanks, an optional sign, then decimal digits.
StrToInt(cs) ==
    LET body == Strip(cs)
        signed == body # <<>> /\ Head(body) \in {"+", "-"}
        ds == IF signed THEN Tail(body) ELSE body
        good == ds # <<>> /\ \A i \in 1..Len(ds) : ds[i] \in Digits
    IN  IF ~good THEN [ok |-> FALSE, n |-> 0]
        ELSE [ok |-> TRUE,
              n |-> IF signed /\ Head(body) = "-" THEN 0 - DigitsVal(ds, 0)
                    ELSE DigitsVal(ds, 0)]

\* int() of a float truncates toward zero.
Trunc(tenths) == IF tenths >= 0 THEN tenths \div 10 ELSE 0 - ((0 - tenths) \div 10)

PyInt(v) ==
    CASE v.t \in {"int", "bool"} -> [ok |-> TRUE, n |-> v.n]
      [] v.t = "float" -> [ok |-> TRUE, n |-> Trunc(v.n)]
      [] v.t = "str" -> StrToInt(v.s)
      [] OTHER -> [ok |-> FALSE, n |-> 0]

(***************************************************************************)
(* The document store.  A collection is the sequence of its documents in   *)
(* natural (insertion) order; a document is a dict.                        *)
(***************************************************************************)
Range(seq) == {seq[i] : i \in 1..Len(seq)}

\* Positions of the documents matching the filter {key: val}.  A filter on
\* null also matches a document without the key, which Get gives.
Matches(col, key, val) == {i \in 1..Len(col) : Get(col[i], key) = val}

\* Position of the first match, 0 when nothing matches.
FirstMatch(col, key, val) ==
    IF Matches(col, key, val) = {} THEN 0
    ELSE CHOOSE i \in Matches(col, key, val) : \A j \in Matches(col, key, val) : i <= j

RemoveAt(col, i) == SubSeq(col, 1, i - 1) \o SubSeq(col, i + 1, Len(col))

\* find_one(filter): the first matching document, or None.
FindOne(col, key, val) ==
    IF FirstMatch(col, key, val) = 0 THEN None ELSE col[FirstMatch(col, key, val)]

\* A delete_one that ignores its filter and removes the first document.
DeleteOneAny(col, key, val) == IF col = <<>> THEN col ELSE Tail(col)

\* delete_one(filter)
DeleteOne(col, key, val) ==
    IF FirstMatch(col, key, val) = 0 THEN col ELSE RemoveAt(col, FirstMatch(col, key, val))

\* A variant of UpdateOneSet that replaces the matched document by the payload.
UpdateOneReplace(col, key, val, payload) ==
    IF FirstMatch(col, key, val) = 0
    THEN Append(col, Merge([k \in {key} |-> val], payload))
    ELSE [col EXCEPT ![FirstMatch(col, key, val)] = payload]

\* update_one(filter, {"$set": payload}, upsert=True): the payload's fields are
\* written over the first matching document and its other fields are kept; with no
\* match a document made of the filter's field and the payload is inserted.
UpdateOneSet(col, key, val, payload) ==
    IF FirstMatch(col, key, val) = 0
    THEN Append(col, Merge([k \in {key} |-> val], payload))
    ELSE [col EXCEPT ![FirstMatch(col, key, val)] = Merge(@, payload)]

(***************************************************************************)
(* Responses.                                                              *)
(***************************************************************************)
HTTP_OK == 200

HTTP_FOUND == 302

HTTP_BAD_REQUEST == 400

HTTP_UNAUTHORIZED == 401

HTTP_SERVER_ERROR == 500

Response(status, kind, data) == [status |-> status, kind |-> kind, data |-> data]

Json(data) == Response(HTTP_OK, "json", data)

Status(text) == Response(HTTP_OK, "status", text)

Unauthorized == Response(HTTP_UNAUTHORIZED, "error", "unauthorized")

\* An exception that leaves the handler: Flask answers 500.
Raised(exc) == Response(HTTP_SERVER_ERROR, "exception", exc)

Request(op, c, arg) == [op |-> op, client |-> c, arg |-> arg]

(***************************************************************************)
(* The session gate.                                                       *)
(***************************************************************************)
\* A gate that lets every request through.
AdminRequiredOpen(c) == TRUE

\* admin_required: the wrapped handler runs only when the session's
\* admin_logged_in is truthy.
AdminRequired(c) == Truthy(Get(session[c], "admin_logged_in"))

\* A credential check that looks at the username only.
CredentialsOkAnyPassword(username, password) ==
    FirstMatch(admins_col, "username", username) # 0

\* admin and admin.get("password") == password, admin being
\* admins_col.find_one({"username": username})
CredentialsOk(username, password) ==
    /\ FirstMatch(admins_col, "username", username) # 0
    /\ Get(FindOne(admins_col, "username", username), "password") = password

(***************************************************************************)
(* Public handlers.                                                        *)
(***************************************************************************)
\* Documents as find(..., {"_id": 0}) returns them: the model's service
\* documents carry no _id, the only field the projection removes.
AllServices == services_col

\* GET /api/services
GetServices(c) ==
    /\ last' = Request("get_services", c, None)
    /\ resp' = Json(AllServices)
    /\ UNCHANGED <<services_col, eng_col, admins_col, session>>

\* What GET /api/service/<service_id> answers: the document, or {}.
ServiceOrEmpty(service_id) ==
    IF FirstMatch(services_col, "id", service_id) = 0 THEN EmptyDict
    ELSE FindOne(services_col, "id", service_id)

\* GET /api/service/<service_id>
GetService(c, service_id) ==
    /\ last' = Request("get_service", c, service_id)
    /\ resp' = Json(ServiceOrEmpty(service_id))
    /\ UNCHANGED <<services_col, eng_col, admins_col, session>>

\* datetime.utcnow() as logical time: the k-th insert happens at tick k.
UtcNow == Len(eng_col) + 1

\* int(payload.get("age")) if payload.get("age") else None, where int() succeeds.
StoredAge(payload) ==
    IF Truthy(Get(payload, "age")) THEN IntV(PyInt(Get(payload, "age")).n) ELSE None

\* payload.get("user_id") or None
StoredUser(payload) == Or(Get(payload, "user_id"), None)

\* The document log_engagement builds; insert_one gives it its _id.
EngagementDoc(payload) ==
    [_id |-> [t |-> "oid", n |-> Len(eng_col) + 1, s |-> <<>>],
     user_id |-> StoredUser(payload),
     age |-> StoredAge(payload),
     job |-> Get(payload, "job"),
     desires |-> Or(Get(payload, "desires"), ListV(<<>>)),
     question_clicked |-> Get(payload, "question_clicked"),
     service |-> Get(payload, "service"),
     timestamp |-> TimeV(UtcNow)]

\* POST /api/engagement.  int() raising on a truthy age leaves the handler
\* before insert_one.
LogEngagement(c, payload) ==
    /\ last' = Request("log_engagement", c, payload)
    /\ IF Truthy(Get(payload, "age")) /\ ~PyInt(Get(payload, "age")).ok
       THEN /\ resp' = Raised("ValueError")
            /\ UNCHANGED eng_col
       ELSE /\ eng_col' = Append(eng_col, EngagementDoc(payload))
            /\ resp' = Status("ok")
    /\ UNCHANGED <<services_col, admins_col, session>>

\* POST /admin/login with the form fields username and password
AdminLogin(c, username, password) ==
    /\ last' = Request("admin_login", c, <<username, password>>)
    /\ IF CredentialsOk(username, password)
       THEN /\ session' = [session EXCEPT ![c] =
                    Merge(@, [admin_logged_in |-> BoolV(TRUE), admin_user |-> username])]
            /\ resp' = Response(HTTP_FOUND, "redirect", "/admin")
       ELSE /\ resp' = Response(HTTP_UNAUTHORIZED, "text", "Login failed")
            /\ UNCHANGED session
    /\ UNCHANGED <<services_col, eng_col, admins_col>>

(***************************************************************************)
(* The aggregation of admin_insights.                                      *)
(***************************************************************************)
AGE_18 == 18

AGE_25 == 25

AGE_40 == 40

AGE_60 == 60

AgeBuckets == {"<18", "18-25", "26-40", "41-60", "60+"}

\* The if/elif chain over an age already converted by int().
BucketOf(age) ==
    IF age < AGE_18 THEN "<18"
    ELSE IF age <= AGE_25 THEN "18-25"
    ELSE IF age <= AGE_40 THEN "26-40"
    ELSE IF age <= AGE_60 THEN "41-60"
    ELSE "60+"

\* One pass of the age loop: a falsy age (None, and 0 too) and an age int()
\* rejects are skipped, any other adds one to its bucket.
AgeStep(groups, e) ==
    LET age == Get(e, "age")
    IN  IF ~Truthy(age) THEN groups
        ELSE IF ~PyInt(age).ok THEN groups
        ELSE [groups EXCEPT ![BucketOf(PyInt(age).n)] = @ + 1]

RECURSIVE AgeLoop(_, _)
AgeLoop(groups, col) ==
    IF col = <<>> THEN groups ELSE AgeLoop(AgeStep(groups, Head(col)), Tail(col))

AgeGroups(col) == AgeLoop([b \in AgeBuckets |-> 0], col)

\* A dict of counts: d[k] = d.get(k, 0) + 1 for every k of keys.
Histogram(keys) ==
    [k \in Range(keys) |-> Cardinality({i \in 1..Len(keys) : keys[i] = k})]

Unknown == StrV(<<"Unknown">>)

\* (e.get("job") or "Unknown").strip() raises AttributeError when the job is
\* truthy and no string.
JobRaises(col) ==
    \E i \in 1..Len(col) : Truthy(Get(col[i], "job")) /\ Get(col[i], "job").t # "str"

JobKeys(col) == [i \in 1..Len(col) |-> StrV(Strip(Or(Get(col[i], "job"), Unknown).s))]

ServiceKeys(col) == [i \in 1..Len(col) |-> Or(Get(col[i], "service"), Unknown)]

QuestionKeys(col) == [i \in 1..Len(col) |-> Or(Get(col[i], "question_clicked"), Unknown)]

\* Every item of every document's desires, in order.
RECURSIVE DesireKeys(_)
DesireKeys(col) ==
    IF col = <<>> THEN <<>>
    ELSE Or(Get(Head(col), "desires"), ListV(<<>>)).s \o DesireKeys(Tail(col))

PREMIUM_MIN_COUNT == 2

\* The $group stage: one group per (user_id, question_clicked) with its count.
Groups(col) ==
    {[user |-> Get(col[i], "user_id"),
      question |-> Get(col[i], "question_clicked"),
      count |-> Cardinality({j \in 1..Len(col) :
                    /\ Get(col[j], "user_id") = Get(col[i], "user_id")
                    /\ Get(col[j], "question_clicked") = Get(col[i], "question_clicked")})]
     : i \in 1..Len(col)}

\* The leads without the filter on the user.
PremiumSuggestionsAnyUser(col) == {r \in Groups(col) : r.count >= PREMIUM_MIN_COUNT}

\* The $match stage (count >= 2) and the comprehension's filter on a truthy
\* user.  The pipeline's output order is the store's; the leads are kept as a set.
PremiumSuggestions(col) ==
    {r \in Groups(col) : r.count >= PREMIUM_MIN_COUNT /\ Truthy(r.user)}

\* The report admin_insights returns.
Insights(col) ==
    [age_groups |-> AgeGroups(col),
     jobs |-> Histogram(JobKeys(col)),
     services |-> Histogram(ServiceKeys(col)),
     questions |-> Histogram(QuestionKeys(col)),
     desires |-> Histogram(DesireKeys(col)),
     premium_suggestions |-> PremiumSuggestions(col)]

(***************************************************************************)
(* Admin handlers.  Each is wrapped by admin_required: without a logged-in *)
(* session the answer is 401 and the handler's body does not run.          *)
(***************************************************************************)
Denied(op, c, arg) ==
    /\ last' = Request(op, c, arg)
    /\ resp' = Unauthorized
    /\ UNCHANGED <<services_col, eng_col, admins_col, session>>

\* GET /admin/manage
ManagePage(c) ==
    IF ~AdminRequired(c) THEN Denied("manage_page", c, None)
    ELSE /\ last' = Request("manage_page", c, None)
         /\ resp' = Response(HTTP_OK, "html", "manage.html")
         /\ UNCHANGED <<services_col, eng_col, admins_col, session>>

\* A logout that drops the flag and keeps the rest of the session.
AdminLogoutKeepsUser(c) ==
    IF ~AdminRequired(c) THEN Denied("admin_logout", c, None)
    ELSE /\ last' = Request("admin_logout", c, None)
         /\ session' = [session EXCEPT ![c] = [k \in {"admin_user"} |-> @[k]]]
         /\ resp' = Status("logged out")
         /\ UNCHANGED <<services_col, eng_col, admins_col>>

\* POST /api/admin/logout: session.clear()
AdminLogout(c) ==
    IF ~AdminRequired(c) THEN Denied("admin_logout", c, None)
    ELSE /\ last' = Request("admin_logout", c, None)
         /\ session' = [session EXCEPT ![c] = EmptyDict]
         /\ resp' = Status("logged out")
         /\ UNCHANGED <<services_col, eng_col, admins_col>>

\* GET /api/admin/insights
AdminInsights(c) ==
    IF ~AdminRequired(c) THEN Denied("admin_insights", c, None)
    ELSE /\ last' = Request("admin_insights", c, None)
         /\ resp' = IF JobRaises(eng_col) THEN Raised("AttributeError")
                    ELSE Json(Insights(eng_col))
         /\ UNCHANGED <<services_col, eng_col, admins_col, session>>

ENGAGEMENTS_LIMIT == 500

\* Position of the first document with the greatest timestamp.
Newest(col) ==
    CHOOSE i \in 1..Len(col) :
        /\ \A j \in 1..Len(col) : Get(col[j], "timestamp").n <= Get(col[i], "timestamp").n
        /\ \A j \in 1..(i - 1) : Get(col[j], "timestamp").n < Get(col[i], "timestamp").n

\* sort("timestamp", -1)
RECURSIVE SortNewestFirst(_)
SortNewestFirst(col) ==
    IF col = <<>> THEN <<>>
    ELSE <<col[Newest(col)]>> \o SortNewestFirst(RemoveAt(col, Newest(col)))

\* limit(n)
Limit(col, n) == SubSeq(col, 1, IF Len(col) < n THEN Len(col) ELSE n)

\* str(ObjectId) and datetime.isoformat(): the text of the number.
Text(v) == StrV(<<ToString(v.n)>>)

\* One listed engagement: _id as text, a truthy timestamp as ISO text.
ListedEngagement(e) ==
    Merge(e, [_id |-> Text(e._id),
              timestamp |-> IF Truthy(Get(e, "timestamp")) THEN Text(e.timestamp)
                            ELSE Get(e, "timestamp")])

\* An engagement listing that writes the listed form back to the store.
AdminEngagementsWriteBack(c) ==
    IF ~AdminRequired(c) THEN Denied("admin_engagements", c, None)
    ELSE /\ last' = Request("admin_engagements", c, None)
         /\ eng_col' = [i \in 1..Len(eng_col) |-> ListedEngagement(eng_col[i])]
         /\ resp' = Json([i \in 1..Len(eng_col) |-> ListedEngagement(eng_col[i])])
         /\ UNCHANGED <<services_col, admins_col, session>>

\* GET /api/admin/engagements: the items are changed in the handler's copies only.
AdminEngagements(c) ==
    IF ~AdminRequired(c) THEN Denied("admin_engagements", c, None)
    ELSE /\ last' = Request("admin_engagements", c, None)
         /\ resp' = Json(LET items == Limit(SortNewestFirst(eng_col), ENGAGEMENTS_LIMIT)
                         IN  [i \in 1..Len(items) |-> ListedEngagement(items[i])])
         /\ UNCHANGED <<services_col, eng_col, admins_col, session>>

\* ",".join(items)
RECURSIVE Join(_)
Join(items) ==
    IF items = <<>> THEN <<>>
    ELSE IF Len(items) = 1 THEN <<Head(items)>>
    ELSE <<Head(items), ",">> \o Join(Tail(items))

\* A cell as csv.writer writes it: None as the empty string, a number as its text.
CsvCell(v) ==
    CASE v.t = "null" -> StrV(<<>>)
      [] v.t = "str" -> v
      [] OTHER -> Text(v)

CsvHeader == <<"user_id", "age", "job", "desire", "question", "service", "timestamp">>

CsvRow(e) ==
    <<CsvCell(Get(e, "user_id")), CsvCell(Get(e, "age")), CsvCell(Get(e, "job")),
      StrV(Join(Or(Get(e, "desires"), ListV(<<>>)).s)),
      CsvCell(Get(e, "question_clicked")), CsvCell(Get(e, "service")),
      IF Truthy(Get(e, "timestamp")) THEN Text(Get(e, "timestamp")) ELSE StrV(<<>>)>>

\* GET /api/admin/export_csv: the header row, then one row per engagement.
ExportCsv(c) ==
    IF ~AdminRequired(c) THEN Denied("export_csv", c, None)
    ELSE /\ last' = Request("export_csv", c, None)
         /\ resp' = Response(HTTP_OK, "csv",
                        [header |-> CsvHeader,
                         rows |-> [i \in 1..Len(eng_col) |-> CsvRow(eng_col[i])]])
         /\ UNCHANGED <<services_col, eng_col, admins_col, session>>

\* GET /api/admin/services
AdminServicesGet(c) ==
    IF ~AdminRequired(c) THEN Denied("admin_services_get", c, None)
    ELSE /\ last' = Request("admin_services_get", c, None)
         /\ resp' = Json(AllServices)
         /\ UNCHANGED <<services_col, eng_col, admins_col, session>>

\* An upsert without the check of the id.
AdminServicesPostUnchecked(c, payload) ==
    IF ~AdminRequired(c) THEN Denied("admin_services_post", c, payload)
    ELSE /\ last' = Request("admin_services_post", c, payload)
         /\ services_col' = UpdateOneSet(services_col, "id", Get(payload, "id"), payload)
         /\ resp' = Status("ok")
         /\ UNCHANGED <<eng_col, admins_col, session>>

\* POST /api/admin/services
AdminServicesPost(c, payload) ==
    IF ~AdminRequired(c) THEN Denied("admin_services_post", c, payload)
    ELSE /\ last' = Request("admin_services_post", c, payload)
         /\ IF ~Truthy(Get(payload, "id"))
            THEN /\ resp' = Response(HTTP_BAD_REQUEST, "error", "id required")
                 /\ UNCHANGED services_col
            ELSE /\ services_col' =
                        UpdateOneSet(services_col, "id", Get(payload, "id"), payload)
                 /\ resp' = Status("ok")
         /\ UNCHANGED <<eng_col, admins_col, session>>

\* DELETE /api/admin/services/<service_id>
DeleteService(c, service_id) ==
    IF ~AdminRequired(c) THEN Denied("delete_service", c, service_id)
    ELSE /\ last' = Request("delete_service", c, service_id)
         /\ services_col' = DeleteOne(services_col, "id", service_id)
         /\ resp' = Status("deleted")
         /\ UNCHANGED <<eng_col, admins_col, session>>

(***************************************************************************)
(* Start-up, inputs and the next-state relations.                          *)
(***************************************************************************)
\* ADMIN_PWD's default
DefaultAdmin == [username |-> StrV(<<"admin">>), password |-> StrV(<<"admin123">>)]

\* if admins_col.count_documents({}) == 0: insert the default admin
Bootstrap(col) == IF Len(col) = 0 THEN Append(col, DefaultAdmin) ELSE col

\* The browser sessions followed: one cookie jar.
Clients == {"c1"}

Usernames == {StrV(<<"admin">>), StrV(<<"bob">>), None}

Passwords == {StrV(<<"admin123">>), StrV(<<"Admin123">>), None}

\* Ids admins give their services, and the ids asked for in URLs: those and one
\* more that no service has.
ServiceIds == {StrV(<<"s1">>), StrV(<<"s2">>)}

UrlIds == ServiceIds \cup {StrV(<<"s3">>)}

\* All dicts over some of the keys, each key with one of its values.
Dicts(values) ==
    UNION {[keys -> UNION {values[k] : k \in keys}] : keys \in SUBSET DOMAIN values}

WellTyped(d, values) == \A k \in DOMAIN d : d[k] \in values[k]

DictsOf(values) == {d \in Dicts(values) : WellTyped(d, values)}

\* Bodies of POST /api/admin/services: the id missing, null, empty or a string.
ServicePayloads ==
    DictsOf([id |-> ServiceIds \cup {None, StrV(<<>>)},
             name |-> {StrV(<<"A">>), StrV(<<"B">>)}])

\* Bodies of POST /api/engagement for the whole-API specification.
EngPayloads ==
    {EmptyDict,
     [user_id |-> StrV(<<"A">>), age |-> IntV(30), job |-> StrV(<<" ", "clerk", " ">>),
      desires |-> ListV(<<"housing", "housing">>),
      question_clicked |-> StrV(<<"Q1">>), service |-> StrV(<<"passport">>)],
     [user_id |-> StrV(<<>>), age |-> StrV(<<"a", "b", "c">>)],
     [age |-> IntV(0 - 5), job |-> IntV(5)],
     [user_id |-> StrV(<<"A">>), age |-> StrV(<<"0">>),
      question_clicked |-> StrV(<<"Q1">>)]}

MaxEngagements == 2

Init ==
    /\ services_col = <<>>
    /\ eng_col = <<>>
    /\ admins_col = Bootstrap(<<>>)
    /\ session = [c \in Clients |-> EmptyDict]
    /\ last = Request("start", "c1", None)
    /\ resp = Response(HTTP_OK, "none", None)

Next ==
    \/ \E c \in Clients : GetServices(c)
    \/ \E c \in Clients, id \in UrlIds : GetService(c, id)
    \/ \E c \in Clients, p \in EngPayloads :
          Len(eng_col) < MaxEngagements /\ LogEngagement(c, p)
    \/ \E c \in Clients, u \in Usernames, p \in Passwords : AdminLogin(c, u, p)
    \/ \E c \in Clients : ManagePage(c)
    \/ \E c \in Clients : AdminLogout(c)
    \/ \E c \in Clients : AdminInsights(c)
    \/ \E c \in Clients : AdminEngagements(c)
    \/ \E c \in Clients : ExportCsv(c)
    \/ \E c \in Clients : AdminServicesGet(c)
    \/ \E c \in Clients, p \in ServicePayloads : AdminServicesPost(c, p)
    \/ \E c \in Clients, id \in UrlIds : DeleteService(c, id)

Spec == Init /\ [][Next]_vars

(***************************************************************************)
(* The aggregation under richer engagement payloads: one specification for *)
(* the ages, one for the (user, question) pairs.  Both log engagements and *)
(* read the report through the same handlers as Spec.                      *)
(***************************************************************************)
\* Ages a client may post: numbers around every bucket boundary, zero, a
\* negative number, numeric and non-numeric text, null, and floats (in tenths).
AgeInputs ==
    {None, IntV(0), IntV(0 - 5), IntV(17), IntV(18), IntV(25), IntV(26), IntV(40),
     IntV(41), IntV(60), IntV(61),
     StrV(<<"0">>), StrV(<<"1", "7">>), StrV(<<" ", "4", "1">>), StrV(<<"-", "3">>),
     StrV(<<"a", "b", "c">>), StrV(<<>>), FloatV(5), FloatV(259)}

AgePayloads == {EmptyDict} \cup {[age |-> a] : a \in AgeInputs}

MaxAgeRecords == 3

NextAge ==
    \/ AdminLogin("c1", DefaultAdmin.username, DefaultAdmin.password)
    \/ \E p \in AgePayloads : Len(eng_col) < MaxAgeRecords /\ LogEngagement("c1", p)
    \/ AdminInsights("c1")

SpecAge == Init /\ [][NextAge]_vars

\* Users (missing, empty, named) and questions (missing, two texts) a client may post.
LeadPayloads ==
    DictsOf([user_id |-> {StrV(<<>>), StrV(<<"A">>)},
             question_clicked |-> {StrV(<<"Q1">>), StrV(<<"Q2">>)}])

MaxLeadRecords == 5

NextLeads ==
    \/ AdminLogin("c1", DefaultAdmin.username, DefaultAdmin.password)
    \/ \E p \in LeadPayloads : Len(eng_col) < MaxLeadRecords /\ LogEngagement("c1", p)
    \/ AdminInsights("c1")

SpecLeads == Init /\ [][NextLeads]_vars

(***************************************************************************)
(* The claims.  A claim about one request is stated over its step: the     *)
(* unprimed variables are the state the request met, last' is the request  *)
(* and resp' the answer.                                                   *)
(***************************************************************************)
TheClient == CHOOSE c \in Clients : TRUE

AdminOps ==
    {"manage_page", "admin_logout", "admin_insights", "admin_engagements",
     "export_csv", "admin_services_get", "admin_services_post", "delete_service"}

\* The session is Anonymous: it holds no truthy admin_logged_in.
Anonymous(s) == ~("admin_logged_in" \in DOMAIN s /\ s["admin_logged_in"] = BoolV(TRUE))

IsUnauthorized(r) ==
    r.status = HTTP_UNAUTHORIZED /\ r.kind = "error" /\ r.data = "unauthorized"

IsStatus(r, text) == r.status = HTTP_OK /\ r.kind = "status" /\ r.data = text

\* The Service get(id) returns from a catalog, {} when there is none.
Lookup(col, id) ==
    IF \E i \in 1..Len(col) : "id" \in DOMAIN col[i] /\ col[i]["id"] = id
    THEN col[CHOOSE i \in 1..Len(col) :
                /\ "id" \in DOMAIN col[i] /\ col[i]["id"] = id
                /\ \A j \in 1..(i - 1) : ~("id" \in DOMAIN col[j] /\ col[j]["id"] = id)]
    ELSE EmptyDict

HasService(col, id) == \E i \in 1..Len(col) : "id" \in DOMAIN col[i] /\ col[i]["id"] = id

\* C1: every admin-only request met by an Anonymous session is answered
\* Unauthorized (401) and leaves the catalog, the engagements, the admins and the
\* session as they were.
C1_AnonymousDenied ==
    [][(last'.op \in AdminOps /\ Anonymous(session[last'.client]))
         => /\ IsUnauthorized(resp')
            /\ UNCHANGED <<services_col, eng_col, admins_col, session>>]_vars

\* C1's case: an Anonymous delete(id) was refused and the Service with that id is
\* still in the catalog.
C1_Witness ==
    /\ last.op = "delete_service"
    /\ IsUnauthorized(resp)
    /\ HasService(services_col, last.arg)

\* C2: login makes the session AuthenticatedAdmin with the username recorded
\* exactly when some Admin record has that username and that password; any other
\* login is answered 401 and leaves the session as it was, and after a failed
\* login of an Anonymous session the next admin-only request is Unauthorized.
C2_LoginExactMatch ==
    [][/\ last'.op = "admin_login"
          => IF \E i \in 1..Len(admins_col) :
                    /\ admins_col[i].username = last'.arg[1]
                    /\ admins_col[i].password = last'.arg[2]
             THEN /\ ~Anonymous(session'[last'.client])
                  /\ session'[last'.client]["admin_user"] = last'.arg[1]
             ELSE /\ resp'.status = HTTP_UNAUTHORIZED
                  /\ session' = session
       /\ (/\ last.op = "admin_login"
           /\ resp.status = HTTP_UNAUTHORIZED
           /\ Anonymous(session[last.client])
           /\ last'.op \in AdminOps
           /\ last'.client = last.client)
          => IsUnauthorized(resp')]_vars

\* C2's case: a login with the admin's username and another password failed and
\* the session is Anonymous.
C2_Witness ==
    /\ last.op = "admin_login"
    /\ last.arg[1] = DefaultAdmin.username
    /\ last.arg[2] = StrV(<<"Admin123">>)
    /\ resp.status = HTTP_UNAUTHORIZED
    /\ Anonymous(session[last.client])

\* C3: after a logout request, whatever the session was, the session is Anonymous
\* and holds nothing (no flag, no username); an Anonymous session stays so, with
\* every admin-only request refused, until a login succeeds.
C3_LogoutClears ==
    [][/\ last'.op = "admin_logout"
          => /\ Anonymous(session'[last'.client])
             /\ DOMAIN session'[last'.client] = {}
       /\ (Anonymous(session[TheClient]) /\ last'.op \in AdminOps)
          => IsUnauthorized(resp')
       /\ (Anonymous(session[TheClient])
           /\ ~(last'.op = "admin_login" /\ resp'.status = HTTP_FOUND))
          => /\ Anonymous(session'[TheClient])
             /\ DOMAIN session'[TheClient] = {}]_vars

\* C3's case: a logged-in admin has just logged out.
C3_Witness ==
    /\ last.op = "admin_logout"
    /\ IsStatus(resp, "logged out")
    /\ DOMAIN session[last.client] = {}

\* The request is an upsert by a logged-in admin whose record carries an id.
UpsertWithId(req, s) ==
    /\ req.op = "admin_services_post"
    /\ ~Anonymous(s[req.client])
    /\ "id" \in DOMAIN req.arg
    /\ req.arg["id"] \in ServiceIds

\* C4 as stated: after an authenticated upsert(record) with an id, get(id) returns
\* exactly the submitted record.
C4_WholeRecordReplace ==
    (UpsertWithId(last, session) /\ resp.status = HTTP_OK)
        => Lookup(services_col, last.arg["id"]) = last.arg

\* C4 amended: an authenticated upsert(record) with a non-empty string id inserts
\* the record when no Service has that id, and otherwise writes the submitted
\* fields over that Service: afterwards get(id) has every submitted field with its
\* submitted value and every other field of the prior record with its old value,
\* and no field besides; the other Services are as they were.
C4_UpsertMerges ==
    [][UpsertWithId(last', session)
         => LET id == last'.arg["id"]
                old == Lookup(services_col, id)
                new == Lookup(services_col', id)
            IN  /\ IsStatus(resp', "ok")
                /\ DOMAIN new = (DOMAIN old) \cup (DOMAIN last'.arg)
                /\ \A k \in DOMAIN last'.arg : new[k] = last'.arg[k]
                /\ \A k \in (DOMAIN old) \ (DOMAIN last'.arg) : new[k] = old[k]
                /\ \A other \in UrlIds \ {id} :
                       Lookup(services_col', other) = Lookup(services_col, other)
                /\ Len(services_col') =
                       Len(services_col) + (IF HasService(services_col, id) THEN 0 ELSE 1)]_vars

\* C4's case: the submitted record omits the name and the Service, which had one
\* before, still has it after the upsert.
C4_Witness ==
    /\ UpsertWithId(last, session)
    /\ resp.status = HTTP_OK
    /\ "name" \notin DOMAIN last.arg
    /\ "name" \in DOMAIN Lookup(services_col, last.arg["id"])

\* The catalog without the Services of that id.
Without(col, id) == SelectSeq(col, LAMBDA d : ~("id" \in DOMAIN d /\ d["id"] = id))

\* C8: an authenticated delete(id) answers "deleted" whether or not a Service has
\* that id; with no such Service the catalog is unchanged; afterwards no Service
\* with that id is found by get(id) or listed, the other Services are as they
\* were, and one more delete(id) would leave the catalog as it is.
C8_DeleteIdempotent ==
    [][(last'.op = "delete_service" /\ ~Anonymous(session[last'.client]))
         => /\ IsStatus(resp', "deleted")
            /\ ~HasService(services_col, last'.arg) => services_col' = services_col
            /\ ~HasService(services_col', last'.arg)
            /\ Lookup(services_col', last'.arg) = EmptyDict
            /\ services_col' = Without(services_col, last'.arg)
            /\ DeleteOne(services_col', "id", last'.arg) = services_col']_vars

\* C8's case: a delete(id) for an id no Service ever had was answered "deleted"
\* while the catalog holds Services.
C8_Witness ==
    /\ last.op = "delete_service"
    /\ last.arg \notin ServiceIds
    /\ IsStatus(resp, "deleted")
    /\ services_col # <<>>

\* The record carries no id: the key is missing, null or the empty string.
NoId(record) ==
    \/ "id" \notin DOMAIN record
    \/ record["id"] = None
    \/ record["id"] = StrV(<<>>)

\* C9: an authenticated upsert(record) without an id is answered 400 "id
\* required", whatever else the record holds, and the catalog is unchanged.
C9_UpsertNeedsId ==
    [][(/\ last'.op = "admin_services_post"
        /\ ~Anonymous(session[last'.client])
        /\ NoId(last'.arg))
         => /\ resp'.status = HTTP_BAD_REQUEST
            /\ resp'.kind = "error"
            /\ resp'.data = "id required"
            /\ services_col' = services_col]_vars

\* C9's case: a record with a name and no id was refused with 400 while the
\* catalog holds a Service.
C9_Witness ==
    /\ last.op = "admin_services_post"
    /\ resp.status = HTTP_BAD_REQUEST
    /\ NoId(last.arg)
    /\ "name" \in DOMAIN last.arg
    /\ services_col # <<>>

\* C10: a step changes the engagements only when it is an engagement-logging
\* request, and then by adding one record after the others, which stay as they
\* were; an accepted logging request adds exactly one record.
C10_EngagementsAppendOnly ==
    [][/\ eng_col' # eng_col
          => /\ last'.op = "log_engagement"
             /\ Len(eng_col') = Len(eng_col) + 1
             /\ SubSeq(eng_col', 1, Len(eng_col)) = eng_col
       /\ (last'.op = "log_engagement" /\ resp'.status = HTTP_OK)
          => Len(eng_col') = Len(eng_col) + 1
       /\ last'.op # "log_engagement" => eng_col' = eng_col]_vars

\* C10's case: the engagement listing was served to an admin from a non-empty
\* store.
C10_Witness ==
    /\ last.op = "admin_engagements"
    /\ resp.status = HTTP_OK
    /\ eng_col # <<>>

\* A valid age: present, an integer, not negative (0 included).
ValidAge(e) == "age" \in DOMAIN e /\ e["age"].t = "int" /\ e["age"].n >= 0

\* The bucket boundaries as the report documents them.
InBucket(b, n) ==
    CASE b = "<18" -> n < 18
      [] b = "18-25" -> 18 <= n /\ n <= 25
      [] b = "26-40" -> 26 <= n /\ n <= 40
      [] b = "41-60" -> 41 <= n /\ n <= 60
      [] b = "60+" -> n > 60

RECURSIVE SumOver(_, _)
SumOver(f, keys) ==
    IF keys = {} THEN 0
    ELSE LET k == CHOOSE x \in keys : TRUE IN f[k] + SumOver(f, keys \ {k})

IsInsights(req, r) == req.op = "admin_insights" /\ r.status = HTTP_OK /\ r.kind = "json"

\* C5 as stated: in the report, each bucket counts the engagements whose valid age
\* lies within its boundaries, and the five counts add up to the number of
\* engagements with a valid age; the others add to no bucket.
C5_AgeHistogram ==
    IsInsights(last, resp)
        => /\ \A b \in AgeBuckets :
                 resp.data.age_groups[b] =
                     Cardinality({i \in 1..Len(eng_col) :
                         ValidAge(eng_col[i]) /\ InBucket(b, eng_col[i]["age"].n)})
           /\ SumOver(resp.data.age_groups, AgeBuckets) =
                 Cardinality({i \in 1..Len(eng_col) : ValidAge(eng_col[i])})

\* The number of engagements carrying the pair (user, question).
PairCount(col, user, question) ==
    Cardinality({i \in 1..Len(col) :
        col[i]["user_id"] = user /\ col[i]["question_clicked"] = question})

AgeAbsentOrNatural(e) == e["age"] = None \/ (e["age"].t = "int" /\ e["age"].n >= 0)

\* The posted age is malformed: text that is no number.
MalformedAge(payload) ==
    /\ "age" \in DOMAIN payload
    /\ payload["age"].t = "str"
    /\ payload["age"].s # <<>>
    /\ ~StrToInt(payload["age"].s).ok

\* C7 as stated: every stored Engagement's age is absent or a non-negative
\* integer, every logging request is accepted, and a malformed age is stored as
\* absent.
C7_StoredAgeValid ==
    /\ \A i \in 1..Len(eng_col) : AgeAbsentOrNatural(eng_col[i])
    /\ last.op = "log_engagement"
          => /\ IsStatus(resp, "ok")
             /\ MalformedAge(last.arg) => eng_col[Len(eng_col)]["age"] = None

====
